---- MODULE Spec2Model ----
(***************************************************************************)
(* The auction pallet (pallets/template/src/lib.rs) as a state machine:    *)
(* listing, bidding under escrow, manual resolution, the on_initialize     *)
(* timeout sweep, settlement (finalize_auction) and fee administration,    *)
(* over an in-memory currency ledger (free / reserved balances with the    *)
(* behaviour of the Currency and ReservableCurrency calls the pallet       *)
(* makes) and an ownership registry (owner, frozen flag, collection team). *)
(***************************************************************************)
EXTENDS Integers, Sequences, FiniteSets, TLC

VARIABLES
    now,              \* frame_system block number
    free,             \* ledger: free balance per account
    reserved,         \* ledger: reserved balance per account
    nftOwner,         \* registry: owner of each item, or None
    itemFrozen,       \* registry: is_frozen of each item
    coll,             \* registry: each collection's owner / admin / freezer / is_frozen
    auctions,         \* Auctions storage map
    bids,             \* Bids storage map (the bid book)
    inAuction,        \* InAuction storage map
    feePercentage,    \* FeePercentage storage value
    accumulatedFees,  \* AccumulatedFees storage value
    events,           \* pallet events deposited by the most recent operation
    ed,               \* ledger: the runtime's ExistentialDeposit
    last              \* the most recent operation: name, arguments, result, settlement log

vars == <<now, free, reserved, nftOwner, itemFrozen, coll, auctions, bids,
          inAuction, feePercentage, accumulatedFees, events, ed, last>>

-----------------------------------------------------------------------------
(* Bounds and configuration                                                 *)

\* Config::MaxBidsPerAuction (K): capacity of a bid book.
MaxBidsPerAuction == 3

\* Config::AuctionTimeoutBlocks.
AuctionTimeoutBlocks == 2

\* Config::RoyaltyPercentage.
RoyaltyPercentage == 10

\* pallet_balances ExistentialDeposit of the test runtime.
ExistentialDeposit == 1

\* The width of the balance type: Balance = u128, scaled to 14 bits, so that
\* the largest balance is 16383.
BalanceBits == 14
BalanceModulus == 2 ^ BalanceBits
BalanceMax == BalanceModulus - 1

\* pallet_balances ExistentialDeposit of the node runtime, EXISTENTIAL_DEPOSIT,
\* scaled: above the smallest fees and payouts, below the genesis balances.
NodeExistentialDeposit == 10

\* The clock stops advancing at this block.
MaxBlock == 3

None == "None"
NoAuction == [none |-> TRUE]

Seller == "S"
Creator == "R"
PalletAccount == "P"
Bidders == {"A", "B"}
\* A bidder who joins only where three bidders compete.
ThirdBidder == "C"
\* A bidder who joins only where more bidders compete than a book can hold.
FourthBidder == "D"
Accounts == Bidders \cup {ThirdBidder, FourthBidder, Seller, Creator, PalletAccount}
\* The callers of list_nft_for_auction and resolve_auction.
Listers == {Seller, "A"}
\* The items of the registry that were minted, and one that never was.
Minted == {"X", "Y"}
Unminted == "Z"
Assets == Minted \cup {Unminted}
\* The items whose owner or admin also calls the registry directly.
RegistryAssets == {"X"}
BidAmounts == {0, 10, 20}
FeeInputs == {50, 101}
Root == "Root"

\* Genesis balances of the bidders; every other account starts empty.
GenesisFree ==
    [a \in Accounts |->
        CASE a = "A" -> 40
          [] a = "B" -> 20
          [] a = "C" -> 40
          [] a = "D" -> 40
          [] OTHER -> 0]

\* The collection of each item.
CollectionOf(x) == IF x = "X" THEN "c1" ELSE "c2"

Collections == {"c1", "c2"}

Team(owner, admin, freezer, is_frozen) ==
    [owner |-> owner, admin |-> admin, freezer |-> freezer, is_frozen |-> is_frozen]

\* The registry setups at genesis (create, set_team, transfer_ownership and
\* freeze_collection of the registry): the seller runs both collections and
\* owns the first, the second belongs to its creator; or the seller is not the
\* admin of the first and the second is frozen.
CollectionSetups ==
    { [c \in Collections |->
          IF c = "c1" THEN Team(Seller, Seller, Seller, FALSE)
                      ELSE Team(Creator, Seller, Seller, FALSE)],
      [c \in Collections |->
          IF c = "c1" THEN Team(Seller, Creator, Seller, FALSE)
                      ELSE Team(Seller, Seller, Seller, TRUE)] }

-----------------------------------------------------------------------------
(* The storage as one value, so that an operation can stage its writes and  *)
(* a storage layer can drop them.                                           *)

Store ==
    [now |-> now, free |-> free, reserved |-> reserved, nftOwner |-> nftOwner,
     itemFrozen |-> itemFrozen, coll |-> coll, auctions |-> auctions, bids |-> bids,
     inAuction |-> inAuction, feePercentage |-> feePercentage,
     accumulatedFees |-> accumulatedFees, events |-> <<>>, ed |-> ed]

Commit(s) ==
    /\ now' = s.now
    /\ free' = s.free
    /\ reserved' = s.reserved
    /\ nftOwner' = s.nftOwner
    /\ itemFrozen' = s.itemFrozen
    /\ coll' = s.coll
    /\ auctions' = s.auctions
    /\ bids' = s.bids
    /\ inAuction' = s.inAuction
    /\ feePercentage' = s.feePercentage
    /\ accumulatedFees' = s.accumulatedFees
    /\ events' = s.events
    /\ ed' = s.ed

Ok(s) == [res |-> "Ok", st |-> s]
Err(e, s) == [res |-> e, st |-> s]

Min(a, b) == IF a < b THEN a ELSE b

\* The one element of a singleton set: { F(v) : v \in {e} } computes e once and
\* names it v in F.
Only(S) == CHOOSE v \in S : TRUE

DepositEvent(s, e) == [s EXCEPT !.events = Append(@, e)]

-----------------------------------------------------------------------------
(* Currency ledger: the calls the pallet makes.                             *)

\* A reserve that takes what is there and never fails.
ReserveAvailable(s, who, v) ==
    Ok([s EXCEPT !.free[who] = @ - Min(v, @), !.reserved[who] = @ + Min(v, s.free[who])])

\* ReservableCurrency::reserve: moves v from free to reserved, or fails.
Reserve(s, who, v) ==
    IF v = 0 THEN Ok(s)
    ELSE IF s.free[who] < v THEN Err("InsufficientBalance", s)
    ELSE Ok([s EXCEPT !.free[who] = @ - v, !.reserved[who] = @ + v])

\* ReservableCurrency::unreserve: moves up to v from reserved to free.
Unreserve(s, who, v) ==
    LET actual == Min(v, s.reserved[who])
    IN  [s EXCEPT !.free[who] = @ + actual, !.reserved[who] = @ - actual]

\* Currency::can_slash: the free balance alone covers v.
CanSlash(s, who, v) == v = 0 \/ s.free[who] >= v

\* Currency::withdraw with ExistenceRequirement::KeepAlive.
Withdraw(s, who, v) ==
    IF v = 0 THEN Ok(s)
    ELSE IF s.free[who] < v THEN Err("InsufficientBalance", s)
    ELSE IF s.free[who] - v < s.ed /\ s.free[who] >= s.ed
         THEN Err("Expendability", s)
    ELSE Ok([s EXCEPT !.free[who] = @ - v])

\* Currency::deposit_creating: credits v; a deposit below the existential
\* deposit into an account that holds nothing is dropped.
DepositCreating(s, who, v) ==
    IF v = 0 THEN s
    ELSE IF v < s.ed /\ s.free[who] = 0 /\ s.reserved[who] = 0 THEN s
    ELSE [s EXCEPT !.free[who] = @ + v]

\* The recipient credited, the sender not debited.
TransferCreditOnly(s, from, to, v) == Ok([s EXCEPT !.free[to] = @ + v])

\* Currency::transfer with ExistenceRequirement::AllowDeath.
Transfer(s, from, to, v) ==
    IF v = 0 THEN Ok(s)
    ELSE IF s.free[from] < v THEN Err("InsufficientBalance", s)
    ELSE IF from = to THEN Ok(s)
    ELSE IF s.free[to] + v < s.ed THEN Err("ExistentialDeposit", s)
    ELSE Ok([s EXCEPT !.free[from] = IF @ - v < s.ed /\ s.reserved[from] = 0 THEN 0 ELSE @ - v,
                      !.free[to] = @ + v])

-----------------------------------------------------------------------------
(* Ownership registry: the calls the pallet makes.                          *)

\* A freeze that checks the caller and leaves the item as it is.
FreezeNothing(s, who, x) ==
    IF s.nftOwner[x] = None THEN Err("UnknownCollection", s)
    ELSE IF s.coll[CollectionOf(x)].freezer # who THEN Err("NoPermission", s)
    ELSE Ok(s)

\* pallet_uniques freeze(Signed(who), item): only the collection's freezer.
Freeze(s, who, x) ==
    IF s.nftOwner[x] = None THEN Err("UnknownCollection", s)
    ELSE IF s.coll[CollectionOf(x)].freezer # who THEN Err("NoPermission", s)
    ELSE Ok([s EXCEPT !.itemFrozen[x] = TRUE])

\* pallet_uniques thaw(Signed(who), item): only the collection's admin.
Thaw(s, who, x) ==
    IF s.nftOwner[x] = None THEN Err("UnknownCollection", s)
    ELSE IF s.coll[CollectionOf(x)].admin # who THEN Err("NoPermission", s)
    ELSE Ok([s EXCEPT !.itemFrozen[x] = FALSE])

\* pallet_uniques do_transfer(item, dest): neither collection nor item frozen.
DoTransfer(s, x, dest) ==
    IF s.coll[CollectionOf(x)].is_frozen THEN Err("Frozen", s)
    ELSE IF s.nftOwner[x] = None THEN Err("UnknownCollection", s)
    ELSE IF s.itemFrozen[x] THEN Err("Frozen", s)
    ELSE Ok([s EXCEPT !.nftOwner[x] = dest])

-----------------------------------------------------------------------------
(* Storage layers.                                                          *)

\* with_storage_layer around every dispatchable, and #[transactional] on
\* finalize_auction: the staged writes are kept on Ok and dropped on Err.
WithStorageLayer(s, r) == IF r.res = "Ok" THEN r ELSE Err(r.res, s)

-----------------------------------------------------------------------------
(* list_nft_for_auction                                                     *)

\* A flag test that never finds an item in auction.
NeverInAuction(s, x) == FALSE

\* ensure!(!InAuction::get(..), NftAlreadyInAuction)
IsInAuction(s, x) == s.inAuction[x]

ListBody(s, caller, x) ==
    IF s.nftOwner[x] = None THEN Err("NftNotFound", s)
    ELSE IF caller # s.nftOwner[x] THEN Err("NotNftOwner", s)
    ELSE IF IsInAuction(s, x) THEN Err("NftAlreadyInAuction", s)
    ELSE Only({
         IF f.res # "Ok" THEN Err(f.res, f.st)
         ELSE LET info == [owner |-> caller, start_block |-> s.now, highest_bid |-> 0,
                           highest_bidder |-> None, ended |-> FALSE]
              IN  Ok(DepositEvent([f.st EXCEPT !.auctions[x] = info, !.inAuction[x] = TRUE],
                                  <<"NftListed", x, caller>>))
         : f \in {Freeze(s, caller, x)} })

ListNftForAuction(s, caller, x) == WithStorageLayer(s, ListBody(s, caller, x))

-----------------------------------------------------------------------------
(* place_bid                                                                *)

\* A retain that keeps the bidder's earlier entry.
RetainAll(book, bidder) == book

\* bids.retain(|(b, _)| b != &bidder)
Retain(book, bidder) == SelectSeq(book, LAMBDA e : e.bidder # bidder)

\* The comparator of the search: b.cmp(&bid_amount).reverse().
CmpReversed(b, bid) == IF b < bid THEN "Greater" ELSE IF b > bid THEN "Less" ELSE "Equal"

\* slice::binary_search_by: the loop halves [base, base + size).
RECURSIVE SearchLoop(_, _, _, _)
SearchLoop(book, bid, base, size) ==
    IF size > 1
    THEN LET half == size \div 2
             mid == base + half
         IN  SearchLoop(book, bid,
                        IF CmpReversed(book[mid + 1].amount, bid) = "Greater" THEN base ELSE mid,
                        size - half)
    ELSE base

\* A search that always answers the position behind the last entry.
SearchPastEnd(book, bid) == Len(book)

\* The position (0-based) returned by binary_search_by, Ok(pos) | Err(pos).
BinarySearchPos(book, bid) ==
    IF Len(book) = 0 THEN 0
    ELSE LET base == SearchLoop(book, bid, 0, Len(book))
             c == CmpReversed(book[base + 1].amount, bid)
         IN  IF c = "Equal" THEN base ELSE IF c = "Less" THEN base + 1 ELSE base

\* An insertion behind every entry, whatever the position.
InsertLast(book, pos, e) == Append(book, e)

\* Vec::insert at a 0-based position.
InsertAt(book, pos, e) ==
    SubSeq(book, 1, pos) \o <<e>> \o SubSeq(book, pos + 1, Len(book))

\* BoundedVec::try_insert
TryInsert(K, book, pos, e) ==
    IF Len(book) >= K
    THEN [res |-> "TooManyBids", book |-> book]
    ELSE [res |-> "Ok", book |-> InsertAt(book, pos, e)]

\* A pop that drops the head of a full book instead of its tail.
PopHeadIfFull(K, book) ==
    IF Len(book) = K THEN SubSeq(book, 2, Len(book)) ELSE book

\* if bids.len() == MaxBidsPerAuction { bids.pop(); }
PopIfFull(K, book) ==
    IF Len(book) = K THEN SubSeq(book, 1, Len(book) - 1) ELSE book

\* The book update of place_bid in a build whose MaxBidsPerAuction is K:
\* retain, search, capacity check, pop, try_insert.
UpdateBookOfCapacity(K, book, bidder, amount) ==
    Only({
        Only({
            IF Len(kept) = K /\ pos >= Len(kept)
            THEN [res |-> "BidTooLow", book |-> kept]
            ELSE TryInsert(K, PopIfFull(K, kept), pos, [bidder |-> bidder, amount |-> amount])
        : pos \in {BinarySearchPos(kept, amount)} })
    : kept \in {Retain(book, bidder)} })

UpdateBook(book, bidder, amount) ==
    UpdateBookOfCapacity(MaxBidsPerAuction, book, bidder, amount)

\* A release that skips the leader raising their own bid.
ReleaseOthersOnly(s, info, bidder) ==
    IF info.highest_bidder # None /\ info.highest_bidder # bidder
    THEN Unreserve(s, info.highest_bidder, info.highest_bid)
    ELSE s

\* The release of the previous leader's escrow.
ReleasePrevious(s, info, bidder) ==
    IF info.highest_bidder # None
    THEN IF info.highest_bidder # bidder
         THEN Unreserve(s, info.highest_bidder, info.highest_bid)
         ELSE Unreserve(s, bidder, info.highest_bid)
    ELSE s

\* A record update that also restarts the auction's clock.
RecordBidRestarting(s, x, info, bidder, amount) ==
    [s EXCEPT !.auctions[x] = [info EXCEPT !.highest_bid = amount, !.highest_bidder = bidder,
                                           !.start_block = s.now]]

\* Auctions::insert of the record with the new highest bid and bidder.
RecordBid(s, x, info, bidder, amount) ==
    [s EXCEPT !.auctions[x] = [info EXCEPT !.highest_bid = amount, !.highest_bidder = bidder]]

\* A comparison that lets a bid equal to the highest one through.
BidIsNotLower(amount, highest) == amount >= highest

\* ensure!(bid_amount > auction_info.highest_bid, BidTooLow)
BidIsHigher(amount, highest) == amount > highest

\* An end test that takes every auction for a running one.
NeverEnded(info) == FALSE

\* ensure!(!auction_info.ended, AuctionEnded)
IsEnded(info) == info.ended

\* An owner test that lets everybody bid.
NobodyIsOwner(bidder, info) == FALSE

\* ensure!(bidder != auction_info.owner, CannotBidOnOwnAuction)
IsOwnAuction(bidder, info) == bidder = info.owner

PlaceBidBodyOfCapacity(K, s, bidder, x, amount) ==
    LET info == s.auctions[x] IN
    IF info = NoAuction THEN Err("AuctionNotFound", s)
    ELSE IF IsEnded(info) THEN Err("AuctionEnded", s)
    ELSE IF IsOwnAuction(bidder, info) THEN Err("CannotBidOnOwnAuction", s)
    ELSE IF ~BidIsHigher(amount, info.highest_bid) THEN Err("BidTooLow", s)
    ELSE Only({
         IF r.res # "Ok" THEN Err(r.res, r.st)
         ELSE Only({
              Only({
                  IF u.res # "Ok" THEN Err(u.res, s2)
                  ELSE Ok(DepositEvent([s2 EXCEPT !.bids[x] = u.book],
                                       <<"BidPlaced", x, bidder, amount>>))
              : u \in {UpdateBookOfCapacity(K, s2.bids[x], bidder, amount)} })
         : s2 \in {RecordBid(ReleasePrevious(r.st, info, bidder), x, info, bidder, amount)} })
         : r \in {Reserve(s, bidder, amount)} })

PlaceBidBody(s, bidder, x, amount) ==
    PlaceBidBodyOfCapacity(MaxBidsPerAuction, s, bidder, x, amount)

PlaceBidCall(s, bidder, x, amount) == WithStorageLayer(s, PlaceBidBody(s, bidder, x, amount))

\* place_bid in a build whose MaxBidsPerAuction is K.
PlaceBidCallOfCapacity(K, s, bidder, x, amount) ==
    WithStorageLayer(s, PlaceBidBodyOfCapacity(K, s, bidder, x, amount))

-----------------------------------------------------------------------------
(* finalize_auction                                                         *)

\* bid_amount.checked_mul(royalty_percentage).and_then(checked_div(100)).unwrap_or(0)
RoyaltyAmount(bid) ==
    IF bid * RoyaltyPercentage > BalanceMax THEN 0
    ELSE (bid * RoyaltyPercentage) \div 100

\* bid_amount * fee_percent / 100, the product wrapping as in a build
\* without overflow checks.
FeeAmount(bid, fee_percent) == ((bid * fee_percent) % BalanceModulus) \div 100

\* What the fee computation can give: its value, or in a build with overflow
\* checks a panic when the product does not fit the balance type.
FeeOutcomes(bid, fee_percent) ==
    {[aborted |-> FALSE, value |-> FeeAmount(bid, fee_percent)]}
        \cup (IF bid * fee_percent > BalanceMax
              THEN {[aborted |-> TRUE, value |-> 0]}
              ELSE {})

\* The payout without the fee taken off.
PayoutGross(bid, fee_amount) == bid

\* bid_amount.saturating_sub(fee_amount)
Payout(bid, fee_amount) == IF fee_amount > bid THEN 0 ELSE bid - fee_amount

\* Step 2 of the settlement: the royalty deposit to the collection owner.
PayRoyalty(s, x, royalty) ==
    IF royalty > 0 /\ s.coll[CollectionOf(x)].owner # None
    THEN DepositCreating(s, s.coll[CollectionOf(x)].owner, royalty)
    ELSE s

\* Steps 2 and 3 of the settlement and the fee: royalty to the collection
\* owner, payout to the auction owner, fee to the pallet account and to
\* AccumulatedFees; the fee rate is the one stored now.
\* The rate of genesis, whatever the rate now stored.
FeePercentageAtGenesis(s) == 0

\* FeePercentage::<T>::get()
FeePercentageGet(s) == s.feePercentage

\* The counter overwritten with the latest fee.
AccumulateLatest(s, fee) == [s EXCEPT !.accumulatedFees = fee]

\* AccumulatedFees::mutate(|total| *total += fee_amount)
Accumulate(s, fee) == [s EXCEPT !.accumulatedFees = @ + fee]

Distribute(s, x, owner, bid) ==
    Only({
        Accumulate(
            DepositCreating(
                DepositCreating(PayRoyalty(s, x, RoyaltyAmount(bid)), owner, Payout(bid, fee)),
                PalletAccount, fee),
            fee)
    : fee \in {FeeAmount(bid, FeePercentageGet(s))} })

\* A close that leaves the in-auction flag and the book as they were.
CloseAuctionRecordOnly(s, x, buyer, bid) ==
    DepositEvent([s EXCEPT !.auctions[x] = [@ EXCEPT !.ended = TRUE, !.highest_bidder = buyer]],
                 <<"AuctionResolved", x, buyer, bid>>)

\* A close that does everything but mark the record ended.
CloseAuctionStillOpen(s, x, buyer, bid) ==
    DepositEvent([s EXCEPT !.auctions[x] = [@ EXCEPT !.highest_bidder = buyer],
                           !.inAuction[x] = FALSE,
                           !.bids[x] = <<>>],
                 <<"AuctionResolved", x, buyer, bid>>)

\* The writes after the custody transfer: record, in-auction flag, book, event.
CloseAuction(s, x, buyer, bid) ==
    LET s1 == [s EXCEPT !.auctions[x] = [@ EXCEPT !.ended = TRUE, !.highest_bidder = buyer],
                        !.inAuction[x] = FALSE,
                        !.bids[x] = <<>>]
    IN  DepositEvent(s1, <<"AuctionResolved", x, buyer, bid>>)

\* The body of finalize_auction; on Err the state returned is the one staged
\* so far.
FinalizeBody(s, x, buyer, bid) ==
    LET info == s.auctions[x] IN
    IF info = NoAuction THEN Err("AuctionNotFound", s)
    ELSE IF info.ended THEN Err("AuctionEnded", s)
    ELSE IF s.nftOwner[x] = None THEN Err("NftNotFound", s)
    ELSE IF s.nftOwner[x] # info.owner THEN Err("NotNftOwner", s)
    ELSE IF ~CanSlash(s, buyer, bid) THEN Err("NoValidBuyer", s)
    ELSE Only({
         IF w.res # "Ok" THEN Err(w.res, w.st)
         ELSE Only({
              IF th.res # "Ok" THEN Err(th.res, th.st)
              ELSE Only({
                   IF tr.res # "Ok" THEN Err(tr.res, tr.st)
                   ELSE Ok(CloseAuction(tr.st, x, buyer, bid))
              : tr \in {DoTransfer(th.st, x, buyer)} })
         : th \in {Thaw(Distribute(w.st, x, info.owner, bid), info.owner, x)} })
         : w \in {Withdraw(Unreserve(s, buyer, bid), buyer, bid)} })

\* finalize_auction without #[transactional]: the staged writes stay on Err.
FinalizeAuctionNoRollback(s, x, buyer, bid) == FinalizeBody(s, x, buyer, bid)

\* #[transactional] fn finalize_auction
FinalizeAuction(s, x, buyer, bid) == WithStorageLayer(s, FinalizeBody(s, x, buyer, bid))

\* One settlement attempt with the storage before and after it.
Attempt(s, x, buyer, bid) ==
    Only({ [asset |-> x, buyer |-> buyer, amount |-> bid, res |-> r.res,
            pre |-> s, post |-> r.st]
         : r \in {FinalizeAuction(s, x, buyer, bid)} })

-----------------------------------------------------------------------------
(* resolve_auction                                                          *)

\* A caller test that lets anybody resolve.
AnyoneIsAuctionOwner(who, info) == TRUE

\* ensure!(who == auction_info.owner, NotNftOwner)
IsAuctionOwner(who, info) == who = info.owner

ResolveBody(s, who, x) ==
    LET info == s.auctions[x] IN
    IF info = NoAuction THEN [res |-> "AuctionNotFound", st |-> s, atts |-> <<>>]
    ELSE IF info.ended THEN [res |-> "AuctionEnded", st |-> s, atts |-> <<>>]
    ELSE IF ~IsAuctionOwner(who, info) THEN [res |-> "NotNftOwner", st |-> s, atts |-> <<>>]
    ELSE IF info.highest_bidder = None THEN [res |-> "NoValidBuyer", st |-> s, atts |-> <<>>]
    ELSE Only({ [res |-> a.res, st |-> a.post, atts |-> <<a>>]
              : a \in {Attempt(s, x, info.highest_bidder, info.highest_bid)} })

ResolveAuctionCall(s, who, x) ==
    Only({ [res |-> r.res, st |-> WithStorageLayer(s, r).st, atts |-> r.atts]
         : r \in {ResolveBody(s, who, x)} })

-----------------------------------------------------------------------------
(* auto_resolve_auction and on_initialize                                   *)

\* A loop that walks the book from its lowest entry upwards.
RECURSIVE TryLowestFirst(_, _, _, _, _)
TryLowestFirst(s, x, leader, book, i) ==
    IF i > Len(book) THEN [settled |-> FALSE, st |-> s, atts |-> <<>>]
    ELSE LET j == Len(book) + 1 - i IN
         IF book[j].bidder = leader THEN TryLowestFirst(s, x, leader, book, i + 1)
         ELSE LET a == Attempt(s, x, book[j].bidder, book[j].amount) IN
              IF a.res = "Ok" THEN [settled |-> TRUE, st |-> a.post, atts |-> <<a>>]
              ELSE LET rest == TryLowestFirst(a.post, x, leader, book, i + 1)
                   IN  [rest EXCEPT !.atts = <<a>> \o @]

\* The loop over the book after the leader's settlement failed.
RECURSIVE TryNextBidders(_, _, _, _, _)
TryNextBidders(s, x, leader, book, i) ==
    IF i > Len(book) THEN [settled |-> FALSE, st |-> s, atts |-> <<>>]
    ELSE IF book[i].bidder = leader THEN TryNextBidders(s, x, leader, book, i + 1)
    ELSE Only({
         IF a.res = "Ok" THEN [settled |-> TRUE, st |-> a.post, atts |-> <<a>>]
         ELSE Only({ [rest EXCEPT !.atts = <<a>> \o @]
                   : rest \in {TryNextBidders(a.post, x, leader, book, i + 1)} })
         : a \in {Attempt(s, x, book[i].bidder, book[i].amount)} })

\* A failure that emits the event without ending the auction.
FailAuctionEventOnly(s, x, info) == DepositEvent(s, <<"AuctionFailed", x>>)

\* auction_info.ended = true; Auctions::insert(.., &auction_info); AuctionFailed
FailAuction(s, x, info) ==
    DepositEvent([s EXCEPT !.auctions[x] = [info EXCEPT !.ended = TRUE]],
                 <<"AuctionFailed", x>>)

AutoResolveAuction(s, x) ==
    LET info == s.auctions[x] IN
    IF info = NoAuction THEN [res |-> "AuctionNotFound", st |-> s, atts |-> <<>>]
    ELSE IF info.ended THEN [res |-> "AuctionEnded", st |-> s, atts |-> <<>>]
    ELSE IF info.highest_bidder # None
    THEN Only({
         IF a.res # "Ok"
         THEN Only({
              IF n.settled
              THEN [res |-> "Ok", st |-> n.st, atts |-> <<a>> \o n.atts]
              ELSE [res |-> "Ok", st |-> FailAuction(n.st, x, info), atts |-> <<a>> \o n.atts]
              : n \in {TryNextBidders(a.post, x, info.highest_bidder, a.post.bids[x], 1)} })
         ELSE [res |-> "Ok", st |-> a.post, atts |-> <<a>>]
         : a \in {Attempt(s, x, info.highest_bidder, info.highest_bid)} })
    ELSE [res |-> "Ok", st |-> FailAuction(s, x, info), atts |-> <<>>]

\* An overdue test that is one block late.
IsOverdueLate(info, n) ==
    /\ info # NoAuction
    /\ ~info.ended
    /\ n > info.start_block + AuctionTimeoutBlocks

\* !auction_info.ended && now >= auction_info.start_block + AuctionTimeoutBlocks
IsOverdue(info, n) ==
    /\ info # NoAuction
    /\ ~info.ended
    /\ n >= info.start_block + AuctionTimeoutBlocks

\* A loop that gives up on the remaining auctions once a settlement failed.
RECURSIVE ResolveAllUntilFailure(_, _, _)
ResolveAllUntilFailure(s, todo, i) ==
    IF i > Len(todo) THEN [st |-> s, atts |-> <<>>, sweep |-> <<>>]
    ELSE LET r == AutoResolveAuction(s, todo[i])
             failed == \E k \in DOMAIN r.atts : r.atts[k].res # "Ok"
             rest == IF failed THEN [st |-> r.st, atts |-> <<>>, sweep |-> <<>>]
                     ELSE ResolveAllUntilFailure(r.st, todo, i + 1)
         IN  [st |-> rest.st,
              atts |-> r.atts \o rest.atts,
              sweep |-> <<[asset |-> todo[i], pre |-> s, post |-> r.st]>> \o rest.sweep]

\* The second loop of on_initialize over auctions_to_resolve.
RECURSIVE ResolveAll(_, _, _)
ResolveAll(s, todo, i) ==
    IF i > Len(todo) THEN [st |-> s, atts |-> <<>>, sweep |-> <<>>]
    ELSE Only({
         Only({ [st |-> rest.st,
                 atts |-> r.atts \o rest.atts,
                 sweep |-> <<[asset |-> todo[i], pre |-> s, post |-> r.st]>> \o rest.sweep]
              : rest \in {ResolveAll(r.st, todo, i + 1)} })
         : r \in {AutoResolveAuction(s, todo[i])} })

\* on_initialize(n); order is the order in which Auctions::iter() yields keys.
OnInitialize(s, n, order) ==
    Only({ ResolveAll(s, todo, 1)
         : todo \in {SelectSeq(order, LAMBDA x : IsOverdue(s.auctions[x], n))} })

-----------------------------------------------------------------------------
(* Fee administration                                                       *)

\* ensure_root(origin)
EnsureRoot(origin) == origin = Root

\* Every fee accepted.
AnyFeeIsValid(fee) == TRUE

\* ensure!(fee <= 100, InvalidFee)
FeeIsValid(fee) == fee <= 100

SetFeeBody(s, origin, fee) ==
    IF ~EnsureRoot(origin) THEN Err("BadOrigin", s)
    ELSE IF ~FeeIsValid(fee) THEN Err("InvalidFee", s)
    ELSE Ok(DepositEvent([s EXCEPT !.feePercentage = fee], <<"FeePercentageSet", fee>>))

SetFeePercentageCall(s, origin, fee) == WithStorageLayer(s, SetFeeBody(s, origin, fee))

\* No amount taken for zero.
NeverZero(v) == FALSE

\* total_fees.is_zero()
IsZero(v) == v = 0

WithdrawFeesBody(s, origin, to) ==
    IF ~EnsureRoot(origin) THEN Err("BadOrigin", s)
    ELSE LET total_fees == s.accumulatedFees IN
         Only({
             IF IsZero(total_fees) THEN Err("NoFeesAvailable", s1)
             ELSE Only({
                  IF t.res # "Ok" THEN Err(t.res, t.st)
                  ELSE Ok(DepositEvent(t.st, <<"FeesWithdrawn", to, total_fees>>))
                  : t \in {Transfer(s1, PalletAccount, to, total_fees)} })
         : s1 \in {[s EXCEPT !.accumulatedFees = 0]} })

WithdrawFeesCall(s, origin, to) == WithStorageLayer(s, WithdrawFeesBody(s, origin, to))

-----------------------------------------------------------------------------
(* The state machine                                                        *)

\* What is remembered of the most recent operation: its name, arguments and
\* result, the auction record of its asset before it ran (and, for place_bid,
\* the bid book before it ran), its calls of finalize_auction and, for
\* on_initialize, the storage before and after each auction it resolved. A
\* rejected call keeps its name, its error and its calls of finalize_auction
\* only.
Record(op, who, x, amount, res, atts, sweep) ==
    IF res = "Ok"
    THEN [op |-> op, who |-> who, asset |-> x, amount |-> amount, res |-> res,
          prior |-> IF x \in Assets THEN auctions[x] ELSE NoAuction,
          book |-> IF op = "place_bid" THEN bids[x] ELSE <<>>,
          atts |-> atts, sweep |-> sweep]
    ELSE [op |-> op, who |-> None, asset |-> None, amount |-> 0, res |-> res,
          prior |-> NoAuction, book |-> <<>>, atts |-> atts, sweep |-> sweep]

Genesis(deposit) ==
    /\ now = 1
    /\ ed = deposit
    /\ free = GenesisFree
    /\ reserved = [a \in Accounts |-> 0]
    /\ nftOwner = [x \in Assets |-> IF x \in Minted THEN Seller ELSE None]
    /\ itemFrozen = [x \in Assets |-> FALSE]
    /\ coll \in CollectionSetups
    /\ auctions = [x \in Assets |-> NoAuction]
    /\ bids = [x \in Assets |-> <<>>]
    /\ inAuction = [x \in Assets |-> FALSE]
    /\ feePercentage = 0
    /\ accumulatedFees = 0
    /\ events = <<>>
    /\ last = Record("genesis", None, None, 0, "Ok", <<>>, <<>>)

\* The test runtime.
Init == Genesis(ExistentialDeposit)

\* The node runtime.
InitOfNode == Genesis(NodeExistentialDeposit)

ListNft ==
    \E caller \in Listers, x \in Minted :
        \E r \in {ListNftForAuction(Store, caller, x)} :
            /\ Commit(r.st)
            /\ last' = Record("list_nft_for_auction", caller, x, 0, r.res, <<>>, <<>>)

\* list_nft_for_auction called for an item the registry does not hold.
ListUnminted ==
    \E caller \in Listers :
        \E r \in {ListNftForAuction(Store, caller, Unminted)} :
            /\ Commit(r.st)
            /\ last' = Record("list_nft_for_auction", caller, Unminted, 0, r.res, <<>>, <<>>)

PlaceBid ==
    \E bidder \in Bidders \cup {Seller}, x \in Minted, amount \in BidAmounts :
        \E r \in {PlaceBidCall(Store, bidder, x, amount)} :
            /\ Commit(r.st)
            /\ last' = Record("place_bid", bidder, x, amount, r.res, <<>>, <<>>)

ResolveAuction ==
    \E who \in Listers, x \in Minted :
        \E r \in {ResolveAuctionCall(Store, who, x)} :
            /\ Commit(r.st)
            /\ last' = Record("resolve_auction", who, x, 0, r.res, r.atts, <<>>)

SetFeePercentage ==
    \E origin \in {Root, Seller}, fee \in FeeInputs :
        \E r \in {SetFeePercentageCall(Store, origin, fee)} :
            /\ Commit(r.st)
            /\ last' = Record("set_fee_percentage", origin, None, fee, r.res, <<>>, <<>>)

WithdrawFees ==
    \E origin \in {Root, Seller}, to \in {Seller} :
        \E r \in {WithdrawFeesCall(Store, origin, to)} :
            /\ Commit(r.st)
            /\ last' = Record("withdraw_fees", origin, to, 0, r.res, <<>>, <<>>)

\* The orders in which the two keys of the Auctions map can be iterated.
IterationOrders == {<<"X", "Y">>, <<"Y", "X">>}

\* The next block: the block number advances and on_initialize runs.
NextBlock ==
    /\ now < MaxBlock
    /\ \E order \in IterationOrders :
        \E r \in {OnInitialize([Store EXCEPT !.now = now + 1], now + 1, order)} :
            /\ Commit(r.st)
            /\ last' = Record("on_initialize", None, None, 0, "Ok", r.atts, r.sweep)

\* The registry's own calls, made by the item's owner or the collection's
\* admin outside the pallet.
RegistryCall(s, op, x) ==
    /\ \E v \in {s} : Commit(v)
    /\ last' = Record(op, None, x, 0, "Ok", <<>>, <<>>)

\* thaw by the collection's admin.
UniquesThaw ==
    \E x \in RegistryAssets :
        /\ nftOwner[x] # None
        /\ itemFrozen[x]
        /\ RegistryCall([Store EXCEPT !.itemFrozen[x] = FALSE], "uniques_thaw", x)

\* transfer by the item's owner.
UniquesTransfer ==
    \E x \in RegistryAssets, dest \in Listers :
        /\ nftOwner[x] \notin {None, dest}
        /\ DoTransfer(Store, x, dest).res = "Ok"
        /\ RegistryCall(DoTransfer(Store, x, dest).st, "uniques_transfer", x)

Next ==
    \/ ListNft
    \/ ListUnminted
    \/ PlaceBid
    \/ ResolveAuction
    \/ SetFeePercentage
    \/ WithdrawFees
    \/ NextBlock

\* The pallet's calls and the block hook over a registry nothing else touches.
Spec == Init /\ [][Next]_vars

\* The bids and rates the settlement arithmetic is computed for: small
\* amounts, the amounts around the largest whose product with 100 and with
\* the royalty percentage fits the balance type, and the largest balances.
ArithmeticBids ==
    (0..40) \cup (160..170) \cup (1635..1642) \cup ((BalanceMax - 2)..BalanceMax)
ArithmeticRates == {0, 1, 50, 99, 100}

\* The arithmetic of finalize_auction for one bid amount and one stored rate.
SettlementArithmetic ==
    /\ \E bid \in ArithmeticBids, fee_percent \in ArithmeticRates :
        \E fee \in FeeOutcomes(bid, fee_percent) :
            last' = [op |-> "settlement_arithmetic", bid |-> bid,
                     fee_percent |-> fee_percent, res |-> "Ok",
                     aborted |-> fee.aborted,
                     royalty |-> RoyaltyAmount(bid),
                     fee |-> fee.value,
                     payout |-> Payout(bid, fee.value)]
    /\ UNCHANGED <<now, free, reserved, nftOwner, itemFrozen, coll, auctions, bids,
                   inAuction, feePercentage, accumulatedFees, events, ed>>

NextOfArithmetic == SettlementArithmetic

\* The royalty, fee and payout computations of finalize_auction over the
\* balance type.
SpecOfArithmetic == Init /\ [][NextOfArithmetic]_vars

NextOfNode ==
    \/ ListNft
    \/ PlaceBid
    \/ ResolveAuction
    \/ SetFeePercentage
    \/ WithdrawFees
    \/ NextBlock

\* The same calls in the node runtime, whose ledger drops a deposit below
\* its existential deposit when the account does not exist yet.
SpecOfNode == InitOfNode /\ [][NextOfNode]_vars

NextWithRegistry ==
    \/ ListNft
    \/ PlaceBid
    \/ ResolveAuction
    \/ NextBlock
    \/ UniquesThaw
    \/ UniquesTransfer

\* The auction calls and the block hook while owners and admins also use the
\* registry directly; the fee rate stays at its genesis value.
SpecWithRegistry == Init /\ [][NextWithRegistry]_vars

\* The bids where three bidders compete; three amounts let a third accepted
\* bid meet a book that two others have filled.
CompetitionAmounts == {10, 20, 30}

PlaceBidOfThree ==
    \E bidder \in Bidders \cup {ThirdBidder}, x \in Minted, amount \in CompetitionAmounts :
        \E r \in {PlaceBidCall(Store, bidder, x, amount)} :
            /\ Commit(r.st)
            /\ last' = Record("place_bid", bidder, x, amount, r.res, <<>>, <<>>)

NextOfThree ==
    \/ ListNft
    \/ PlaceBidOfThree
    \/ ResolveAuction
    \/ NextBlock

\* Three bidders on the seller's auctions at the genesis fee rate.
SpecOfThree == Init /\ [][NextOfThree]_vars

\* The bids where four bidders compete for one item: one bidder more than a
\* book holds, and an amount for each.
CrowdAmounts == {10, 20, 30, 40}

PlaceBidOfFour ==
    \E bidder \in Bidders \cup {ThirdBidder, FourthBidder}, x \in RegistryAssets,
       amount \in CrowdAmounts :
        \E r \in {PlaceBidCall(Store, bidder, x, amount)} :
            /\ Commit(r.st)
            /\ last' = Record("place_bid", bidder, x, amount, r.res, <<>>, <<>>)

NextOfFour ==
    \/ ListNft
    \/ PlaceBidOfFour
    \/ ResolveAuction
    \/ NextBlock

\* Four bidders on one of the seller's auctions at the genesis fee rate.
SpecOfFour == Init /\ [][NextOfFour]_vars

-----------------------------------------------------------------------------
(* Properties                                                               *)

Active(x) == auctions[x] # NoAuction /\ ~auctions[x].ended

HasLeader(x) == Active(x) /\ auctions[x].highest_bidder # None

\* C1: every auction that exists, is not ended and has a highest bidder has
\* reserved_balance(highest_bidder) = highest_bid.
C1_EscrowEqualsHighestBid ==
    \A x \in Assets :
        HasLeader(x) => reserved[auctions[x].highest_bidder] = auctions[x].highest_bid

\* C2: a call of finalize_auction that returns an error leaves the whole
\* storage (balances, accumulated fees, registry, records, flags, books and
\* events) as it was before the call.
C2_FailedSettlementChangesNothing ==
    \A i \in DOMAIN last.atts :
        last.atts[i].res # "Ok" => last.atts[i].post = last.atts[i].pre

\* C2 witness: a settlement failed at thaw, after the funds had been moved.
C2_Witness ==
    \E i \in DOMAIN last.atts :
        /\ last.atts[i].res = "NoPermission"
        /\ last.atts[i].pre.reserved[last.atts[i].buyer] >= last.atts[i].amount

\* The sum of free and reserved balance over all accounts.
RECURSIVE SumOver(_, _)
SumOver(f, S) ==
    IF S = {} THEN 0
    ELSE LET a == CHOOSE v \in S : TRUE IN f[a] + SumOver(f, S \ {a})

TotalBalance(fr, rs) == SumOver(fr, Accounts) + SumOver(rs, Accounts)

\* C3: the sum over all accounts of free plus reserved balance never changes.
C3_ValueConserved ==
    TotalBalance(free, reserved) = SumOver(GenesisFree, Accounts)

\* The balance of an account, free and reserved together.
Holdings(s, a) == s.free[a] + s.reserved[a]

\* What one successful settlement moves, by role.
BuyerDebit(att, a) == IF a = att.buyer THEN att.amount ELSE 0
OwnerCredit(att, a) ==
    IF a = att.pre.auctions[att.asset].owner
    THEN att.amount - FeeAmount(att.amount, att.pre.feePercentage) ELSE 0
TreasuryCredit(att, a) ==
    IF a = PalletAccount THEN FeeAmount(att.amount, att.pre.feePercentage) ELSE 0
RoyaltyCredit(att, a) ==
    IF a = att.pre.coll[CollectionOf(att.asset)].owner THEN RoyaltyAmount(att.amount) ELSE 0

BidCallers == Bidders \cup {Seller}

\* C5: on an active auction a bid by someone other than its owner that is not
\* strictly above highest_bid fails with BidTooLow and changes nothing; an
\* accepted bid is above the previous highest_bid and above zero and becomes
\* the highest_bid; the highest_bid of an auction that stays active never
\* decreases.
C5_MonotonicBids ==
    /\ [](\A b \in BidCallers, x \in Assets, a \in BidAmounts :
              (Active(x) /\ b # auctions[x].owner /\ a <= auctions[x].highest_bid)
                  => PlaceBidCall(Store, b, x, a) = Err("BidTooLow", Store))
    /\ [][ /\ (last'.op = "place_bid" /\ last'.res = "Ok") =>
                   /\ last'.amount > auctions[last'.asset].highest_bid
                   /\ last'.amount > 0
                   /\ auctions'[last'.asset].highest_bid = last'.amount
            /\ \A x \in Assets :
                   (Active(x) /\ auctions'[x] # NoAuction /\ ~auctions'[x].ended)
                       => auctions'[x].highest_bid >= auctions[x].highest_bid
          ]_vars

\* C5 witness: an accepted bid that outbid an earlier one.
C5_Witness ==
    /\ last.op = "place_bid"
    /\ last.res = "Ok"
    /\ last.prior.highest_bid > 0
    /\ last.prior.highest_bidder # last.who
    /\ auctions[last.asset].highest_bid = last.amount

LedBy(a) == { x \in Assets : HasLeader(x) /\ auctions[x].highest_bidder = a }

RECURSIVE SumOfHighestBids(_)
SumOfHighestBids(S) ==
    IF S = {} THEN 0
    ELSE LET x == CHOOSE v \in S : TRUE
         IN  auctions[x].highest_bid + SumOfHighestBids(S \ {x})

\* C7: every account's reserved balance equals the sum of highest_bid over
\* the active auctions in which it is the highest bidder.
C7_NoEscrowOutlivesAuction ==
    \A a \in Accounts : reserved[a] = SumOfHighestBids(LedBy(a))

\* The assets the sweep recorded in last processed.
Swept(l) == { l.sweep[i].asset : i \in DOMAIN l.sweep }

\* C8: the sweep at clock value now' processes an active auction exactly
\* when now' >= start_block + AuctionTimeoutBlocks; an auction it does not
\* process keeps its record; when the first settlement, with the highest
\* bidder at the highest bid, succeeds, the auction is ended and
\* AuctionResolved(asset, highest_bidder, highest_bid) is emitted.
C8_SweepTiming ==
    [][ now' # now =>
            \A x \in Assets :
                Active(x) =>
                    /\ x \in Swept(last') <=> now' >= auctions[x].start_block + AuctionTimeoutBlocks
                    /\ x \notin Swept(last') => auctions'[x] = auctions[x]
                    /\ \A i \in DOMAIN last'.sweep :
                           LET e == last'.sweep[i]
                               info == e.pre.auctions[x]
                               first == CHOOSE j \in DOMAIN last'.atts :
                                            /\ last'.atts[j].asset = x
                                            /\ \A k \in 1..(j - 1) : last'.atts[k].asset # x
                           IN  (e.asset = x /\ info.highest_bidder # None) =>
                                   /\ \E j \in DOMAIN last'.atts : last'.atts[j].asset = x
                                   /\ last'.atts[first].buyer = info.highest_bidder
                                   /\ last'.atts[first].amount = info.highest_bid
                                   /\ last'.atts[first].res = "Ok" =>
                                          /\ auctions'[x].ended
                                          /\ \E k \in DOMAIN events' :
                                                 events'[k] = <<"AuctionResolved", x,
                                                                info.highest_bidder, info.highest_bid>>
      ]_vars

\* C8 witness: the sweep settled an auction with its highest bidder at the
\* block start_block + AuctionTimeoutBlocks exactly, and left a younger
\* active auction alone.
C8_Witness ==
    /\ last.op = "on_initialize"
    /\ \E i \in DOMAIN last.sweep :
           LET e == last.sweep[i] IN
           /\ now = e.pre.auctions[e.asset].start_block + AuctionTimeoutBlocks
           /\ e.pre.auctions[e.asset].highest_bidder # None
           /\ nftOwner[e.asset] = e.pre.auctions[e.asset].highest_bidder
           /\ \E y \in Assets \ Swept(last) : Active(y)

\* C9: when the sweep processes an auction that has no highest bidder, the
\* record becomes ended, exactly one event, AuctionFailed(asset), is added,
\* and the registry owner of the asset and all balances stay as they were.
C9_TimeoutWithoutBids ==
    \A i \in DOMAIN last.sweep :
        LET e == last.sweep[i] IN
        e.pre.auctions[e.asset].highest_bidder = None =>
            /\ e.post.auctions[e.asset].ended
            /\ e.post.events = Append(e.pre.events, <<"AuctionFailed", e.asset>>)
            /\ e.post.nftOwner[e.asset] = e.pre.nftOwner[e.asset]
            /\ e.post.free = e.pre.free
            /\ e.post.reserved = e.pre.reserved
            /\ e.post.accumulatedFees = e.pre.accumulatedFees

\* C9 witness: the sweep ended an auction nobody had bid on.
C9_Witness ==
    \E i \in DOMAIN last.sweep :
        /\ last.sweep[i].pre.auctions[last.sweep[i].asset].highest_bidder = None
        /\ auctions[last.sweep[i].asset].ended
        /\ nftOwner[last.sweep[i].asset] = Seller

\* The entries of a book that belong to one bidder.
EntriesOf(book, b) == { i \in DOMAIN book : book[i].bidder = b }

\* C10: when the highest bidder of an active auction places an accepted bid a
\* over their previous amount p, their reserved balance grows by exactly
\* a - p, the record shows highest_bid = a with the same highest_bidder, and
\* the book holds exactly one entry for them, with amount a.
C10_RaiseOwnBid ==
    [][ ( /\ last'.op = "place_bid"
          /\ last'.res = "Ok"
          /\ auctions[last'.asset].highest_bidder = last'.who ) =>
            LET b == last'.who
                x == last'.asset
                a == last'.amount
                p == auctions[x].highest_bid
            IN  /\ reserved'[b] = reserved[b] + a - p
                /\ auctions'[x].highest_bid = a
                /\ auctions'[x].highest_bidder = b
                /\ Cardinality(EntriesOf(bids'[x], b)) = 1
                /\ \A i \in EntriesOf(bids'[x], b) : bids'[x][i].amount = a
      ]_vars

\* C10 witness: a leader raised their bid from 10 to 20 and holds 20 in reserve.
C10_Witness ==
    /\ last.op = "place_bid"
    /\ last.res = "Ok"
    /\ last.prior.highest_bidder = last.who
    /\ last.prior.highest_bid = 10
    /\ last.amount = 20
    /\ reserved[last.who] = 20

\* C11: when a bidder other than the highest bidder places an accepted bid a
\* over the highest amount p, the previous highest bidder's reserved balance
\* falls by exactly p and their free balance rises by p, the new bidder's
\* reserved balance rises by exactly a, and the record shows the new bidder
\* and a.
C11_OutbidReleasesPrevious ==
    [][ ( /\ last'.op = "place_bid"
          /\ last'.res = "Ok"
          /\ auctions[last'.asset].highest_bidder \notin {None, last'.who} ) =>
            LET b == last'.who
                x == last'.asset
                a == last'.amount
                prev == auctions[x].highest_bidder
                p == auctions[x].highest_bid
            IN  /\ reserved'[prev] = reserved[prev] - p
                /\ free'[prev] = free[prev] + p
                /\ reserved'[b] = reserved[b] + a
                /\ auctions'[x].highest_bidder = b
                /\ auctions'[x].highest_bid = a
      ]_vars

\* C12: while an auction is active, every entry of its book other than the
\* highest bidder's has at least its amount reserved in the bidder's account.
C12_BookEntriesAreEscrowed ==
    \A x \in Assets :
        Active(x) =>
            \A i \in DOMAIN bids[x] :
                bids[x][i].bidder # auctions[x].highest_bidder
                    => reserved[bids[x][i].bidder] >= bids[x][i].amount

\* The entries of a book as a set, and the positions of its lowest amount.
EntrySet(book) == { book[i] : i \in DOMAIN book }
LowestOf(book) == { i \in DOMAIN book : \A j \in DOMAIN book : book[i].amount <= book[j].amount }

\* C13: no book ever holds more than MaxBidsPerAuction entries; an accepted
\* bid by a bidder with no entry in a book that holds MaxBidsPerAuction
\* entries evicts exactly the lowest entry, keeps the others and leaves the
\* length at MaxBidsPerAuction.
C13_BoundedBook ==
    /\ [](\A x \in Assets : Len(bids[x]) <= MaxBidsPerAuction)
    /\ [][ ( /\ last'.op = "place_bid"
             /\ last'.res = "Ok"
             /\ Len(bids[last'.asset]) = MaxBidsPerAuction
             /\ EntriesOf(bids[last'.asset], last'.who) = {} ) =>
               LET old == bids[last'.asset]
                   new == bids'[last'.asset]
               IN  /\ Len(new) = MaxBidsPerAuction
                   /\ Cardinality(LowestOf(old)) = 1
                   /\ \E i \in LowestOf(old) :
                          EntrySet(new) = (EntrySet(old) \ {old[i]})
                              \cup {[bidder |-> last'.who, amount |-> last'.amount]}
         ]_vars

\* C13 witness: an accepted bid met a full book of two other bidders and the
\* book is still full, without the lowest of the two.
C13_Witness ==
    /\ last.op = "place_bid"
    /\ last.res = "Ok"
    /\ Len(last.book) = MaxBidsPerAuction
    /\ EntriesOf(last.book, last.who) = {}
    /\ Len(bids[last.asset]) = MaxBidsPerAuction
    /\ last.book[Len(last.book)] \notin EntrySet(bids[last.asset])

\* C14: every book is sorted by amount in strictly descending order and no
\* two of its entries share a bidder.
C14_BookShape ==
    \A x \in Assets :
        /\ \A i, j \in DOMAIN bids[x] : i < j => bids[x][i].amount > bids[x][j].amount
        /\ \A i, j \in DOMAIN bids[x] : i # j => bids[x][i].bidder # bids[x][j].bidder

\* C14 witness: a full book after one of its bidders had raised their bid.
C14_Witness ==
    /\ last.op = "place_bid"
    /\ last.res = "Ok"
    /\ EntriesOf(last.book, last.who) # {}
    /\ last.prior.highest_bidder # last.who
    /\ Len(bids[last.asset]) = MaxBidsPerAuction

\* Everybody who bids and every amount bid in some specification.
AllBidCallers == BidCallers \cup {ThirdBidder, FourthBidder}
AllBidAmounts == BidAmounts \cup CompetitionAmounts \cup CrowdAmounts

\* The storage variables, without the log of the most recent operation.
storage == <<now, free, reserved, nftOwner, itemFrozen, coll, auctions, bids,
             inAuction, feePercentage, accumulatedFees>>

\* C15: a place_bid that returns an error leaves every balance, record, flag
\* and book as it was and emits no event; a bid above the highest one by a
\* bidder whose free balance is below the amount is such an error.
C15_RejectedBidChangesNothing ==
    /\ [](\A b \in AllBidCallers, x \in Assets, a \in AllBidAmounts :
              LET r == PlaceBidCall(Store, b, x, a) IN
              /\ r.res # "Ok" => r.st = Store
              /\ (Active(x) /\ b # auctions[x].owner /\ a > auctions[x].highest_bid
                      /\ free[b] < a)
                     => r.res = "InsufficientBalance")
    /\ [][ (last'.op = "place_bid" /\ last'.res # "Ok")
               => (UNCHANGED storage /\ events' = <<>>) ]_vars

\* C15 witness: a bid was rejected at reserve for lack of funds by a bidder
\* who leads another auction.
C15_Witness ==
    /\ last.op = "place_bid"
    /\ last.res = "InsufficientBalance"
    /\ \E x \in Assets : HasLeader(x) /\ free[auctions[x].highest_bidder] < 10

\* C16: list_nft_for_auction fails with NftNotFound for an item without a
\* registry owner, with NotNftOwner for a caller who is not that owner, with
\* NftAlreadyInAuction when the in-auction flag is set, and with the
\* registry's error when freeze fails; a failed listing changes nothing; an
\* active auction has its flag set, so its asset cannot be listed again.
C16_ListingRejections ==
    /\ [](\A who \in Accounts, x \in Assets :
              LET r == ListNftForAuction(Store, who, x)
                  f == Freeze(Store, who, x)
              IN  /\ nftOwner[x] = None => r = Err("NftNotFound", Store)
                  /\ (nftOwner[x] # None /\ who # nftOwner[x]) => r = Err("NotNftOwner", Store)
                  /\ (who = nftOwner[x] /\ inAuction[x])
                         => r = Err("NftAlreadyInAuction", Store)
                  /\ (who = nftOwner[x] /\ ~inAuction[x] /\ f.res # "Ok")
                         => r = Err(f.res, Store)
                  /\ r.res # "Ok" => r.st = Store
                  /\ Active(x) => (inAuction[x] /\ r.res # "Ok"))
    /\ [][ (last'.op = "list_nft_for_auction" /\ last'.res # "Ok")
               => (UNCHANGED storage /\ events' = <<>>) ]_vars

\* C16 witness: the owner's second listing of an asset in auction was
\* rejected.
C16_Witness ==
    /\ last.op = "list_nft_for_auction"
    /\ last.res = "NftAlreadyInAuction"
    /\ \E x \in Assets : Active(x) /\ auctions[x].highest_bidder # None

\* C17: a successful list_nft_for_auction is called by the registry owner,
\* freezes the asset, stores the record (caller, current block, 0, None,
\* not ended), sets the in-auction flag, emits NftListed(asset, caller) as
\* the last event and changes no balance.
C17_ListingEffect ==
    [][ (last'.op = "list_nft_for_auction" /\ last'.res = "Ok") =>
            LET x == last'.asset
                who == last'.who
            IN  /\ who = nftOwner[x]
                /\ nftOwner'[x] = who
                /\ itemFrozen'[x]
                /\ auctions'[x] = [owner |-> who, start_block |-> now, highest_bid |-> 0,
                                   highest_bidder |-> None, ended |-> FALSE]
                /\ inAuction'[x]
                /\ Len(events') > 0
                /\ events'[Len(events')] = <<"NftListed", x, who>>
                /\ free' = free
                /\ reserved' = reserved
                /\ accumulatedFees' = accumulatedFees
      ]_vars

\* C17 witness: an asset was listed after the first block while another
\* auction holds a bid in escrow.
C17_Witness ==
    /\ last.op = "list_nft_for_auction"
    /\ last.res = "Ok"
    /\ now > 1
    /\ auctions[last.asset].start_block = now
    /\ itemFrozen[last.asset]
    /\ \E a \in Accounts : reserved[a] > 0

\* C18: on an active auction place_bid by the recorded owner fails with
\* CannotBidOnOwnAuction for every amount and changes nothing; the highest
\* bidder of an active auction is never its owner.
C18_OwnerCannotBid ==
    \A x \in Assets :
        Active(x) =>
            /\ \A a \in AllBidAmounts :
                   PlaceBidCall(Store, auctions[x].owner, x, a)
                       = Err("CannotBidOnOwnAuction", Store)
            /\ auctions[x].highest_bidder # auctions[x].owner

\* C18 witness: the owner's bid on their own auction, which others had bid
\* on, was rejected.
C18_Witness ==
    /\ last.op = "place_bid"
    /\ last.res = "CannotBidOnOwnAuction"
    /\ \E x \in Assets : HasLeader(x)

\* C19: once the record of an asset is ended, every place_bid on the asset
\* fails with AuctionEnded and changes nothing, whoever bids and whatever
\* the amount, for as long as the record is ended.
C19_NoBidAfterEnd ==
    \A x \in Assets :
        (auctions[x] # NoAuction /\ auctions[x].ended) =>
            \A b \in AllBidCallers, a \in AllBidAmounts :
                PlaceBidCall(Store, b, x, a) = Err("AuctionEnded", Store)

\* C19 witness: a bid was rejected with AuctionEnded in the block in which
\* the auction was listed and resolved.
C19_Witness ==
    /\ last.op = "place_bid"
    /\ last.res = "AuctionEnded"
    /\ now = 1
    /\ \E x \in Assets :
           auctions[x] # NoAuction /\ auctions[x].ended /\ auctions[x].start_block = now

\* C20: resolve_auction fails with AuctionNotFound without a record, with
\* AuctionEnded on an ended record, with NotNftOwner for a caller who is not
\* the recorded owner and with NoValidBuyer without a highest bidder; a failed
\* resolve_auction changes no balance, owner, record, flag or book.
C20_ResolutionPreconditions ==
    /\ [](\A who \in Accounts, x \in Assets :
              LET r == ResolveAuctionCall(Store, who, x) IN
              /\ auctions[x] = NoAuction => r.res = "AuctionNotFound"
              /\ (auctions[x] # NoAuction /\ auctions[x].ended) => r.res = "AuctionEnded"
              /\ (Active(x) /\ who # auctions[x].owner) => r.res = "NotNftOwner"
              /\ (Active(x) /\ who = auctions[x].owner /\ auctions[x].highest_bidder = None)
                     => r.res = "NoValidBuyer"
              /\ r.res # "Ok" => r.st = Store)
    /\ [][ (last'.op = "resolve_auction" /\ last'.res # "Ok")
               => (UNCHANGED storage /\ events' = <<>>) ]_vars

\* C20 witness: somebody other than the owner tried to resolve an auction
\* that has a highest bidder.
C20_Witness ==
    /\ last.op = "resolve_auction"
    /\ last.res = "NotNftOwner"
    /\ \E x \in Assets : HasLeader(x)

\* The record of an asset exists and is ended.
Ended(x) == auctions[x] # NoAuction /\ auctions[x].ended

\* The positions of the closing events of an asset in an event log.
ClosingEvents(log, x) ==
    { k \in DOMAIN log : log[k][1] \in {"AuctionResolved", "AuctionFailed"} /\ log[k][2] = x }

\* C21: a closing event (AuctionResolved or AuctionFailed) of an asset is
\* emitted only by the step that ends its active auction, and only once; the
\* asset changes owner only in such a step; on an ended record
\* resolve_auction fails with AuctionEnded and changes nothing, and no
\* resolve_auction, place_bid or sweep changes the record, the owner or the
\* book of the asset, settles anything for it or visits it.
C21_EndedIsTerminal ==
    /\ [](\A x \in Assets :
              Ended(x) =>
                  \A who \in Accounts :
                      ResolveAuctionCall(Store, who, x)
                          = [res |-> "AuctionEnded", st |-> Store, atts |-> <<>>])
    /\ [][ \A x \in Assets :
               /\ ClosingEvents(events', x) # {} =>
                      /\ Active(x)
                      /\ auctions'[x].ended
                      /\ Cardinality(ClosingEvents(events', x)) = 1
               /\ nftOwner'[x] # nftOwner[x] => (Active(x) /\ auctions'[x].ended)
               /\ (Ended(x) /\ last'.op \in {"resolve_auction", "place_bid", "on_initialize"}) =>
                      /\ auctions'[x] = auctions[x]
                      /\ nftOwner'[x] = nftOwner[x]
                      /\ bids'[x] = bids[x]
                      /\ x \notin Swept(last')
                      /\ \A i \in DOMAIN last'.atts : last'.atts[i].asset # x
         ]_vars

\* C21 witness: the sweep ran over an auction that manual resolution had
\* ended in an earlier block, and the buyer still owns the asset.
C21_Witness ==
    /\ last.op = "on_initialize"
    /\ \E x \in Assets :
           /\ Ended(x)
           /\ auctions[x].highest_bidder # None
           /\ nftOwner[x] = auctions[x].highest_bidder
           /\ now > auctions[x].start_block + AuctionTimeoutBlocks - 1
           /\ x \notin Swept(last)

\* C22: in every state every auction whose start_block + AuctionTimeoutBlocks
\* has been reached by the clock is ended, and every auction a sweep visited
\* is ended after that sweep, whatever settlements failed in it.
C22_SweepCompleteness ==
    /\ \A x \in Assets :
           (auctions[x] # NoAuction /\ now >= auctions[x].start_block + AuctionTimeoutBlocks)
               => auctions[x].ended
    /\ \A i \in DOMAIN last.sweep : auctions[last.sweep[i].asset].ended

\* C22 witness: a sweep visited two auctions; a settlement of the first one
\* it visited failed and the second one was settled.
C22_Witness ==
    /\ last.op = "on_initialize"
    /\ Len(last.sweep) = 2
    /\ \E i \in DOMAIN last.atts :
           /\ last.atts[i].asset = last.sweep[1].asset
           /\ last.atts[i].res # "Ok"
    /\ nftOwner[last.sweep[2].asset] # Seller
    /\ \A x \in Minted : Ended(x)

\* The settlement attempts logged for one asset, in the order they were made.
AttemptsFor(l, x) == SelectSeq(l.atts, LAMBDA a : a.asset = x)

\* C23: when the sweep's settlement with the highest bidder fails, the other
\* entries of the book are attempted in the order of the book, which is
\* descending by amount, each at its own amount; the first success settles
\* the auction and ends the attempts; when every attempt fails all entries
\* were attempted, the record is ended, AuctionFailed(asset) is emitted and
\* no balance or owner has changed.
C23_FallbackOrder ==
    \A i \in DOMAIN last.sweep :
        LET e == last.sweep[i]
            x == e.asset
            info == e.pre.auctions[x]
            tried == AttemptsFor(last, x)
            others == Retain(e.pre.bids[x], info.highest_bidder)
        IN  (info.highest_bidder # None /\ Len(tried) > 0 /\ tried[1].res # "Ok") =>
                /\ tried[1].buyer = info.highest_bidder
                /\ tried[1].amount = info.highest_bid
                /\ Len(tried) - 1 <= Len(others)
                /\ \A k \in 1..(Len(tried) - 1) :
                       /\ tried[k + 1].buyer = others[k].bidder
                       /\ tried[k + 1].amount = others[k].amount
                /\ \A k, m \in 2..Len(tried) : k < m => tried[k].amount > tried[m].amount
                /\ \A k \in 1..(Len(tried) - 1) : tried[k].res # "Ok"
                /\ tried[Len(tried)].res = "Ok" =>
                       /\ e.post.auctions[x].ended
                       /\ e.post.nftOwner[x] = tried[Len(tried)].buyer
                /\ tried[Len(tried)].res # "Ok" =>
                       /\ Len(tried) - 1 = Len(others)
                       /\ e.post.auctions[x] = [info EXCEPT !.ended = TRUE]
                       /\ e.post.events = Append(e.pre.events, <<"AuctionFailed", x>>)
                       /\ e.post.free = e.pre.free
                       /\ e.post.reserved = e.pre.reserved
                       /\ e.post.accumulatedFees = e.pre.accumulatedFees
                       /\ e.post.nftOwner = e.pre.nftOwner

\* C23 witness: the highest bidder and the next entry of the book both
\* failed to settle and the sweep settled the auction with the third entry.
C23_Witness ==
    \E i \in DOMAIN last.sweep :
        LET x == last.sweep[i].asset
            tried == AttemptsFor(last, x)
        IN  /\ Len(tried) = 3
            /\ tried[1].res # "Ok"
            /\ tried[2].res # "Ok"
            /\ tried[3].res = "Ok"
            /\ nftOwner[x] = tried[3].buyer

\* C24: the in-auction flag of an asset is true exactly when a record of the
\* asset exists that is not ended.
C24_FlagMatchesRecord ==
    \A x \in Assets : inAuction[x] <=> Active(x)

\* C25: set_fee_percentage succeeds only for the root origin and a fee of at
\* most 100, and then overwrites the rate and emits FeePercentageSet(fee); a
\* fee above 100 fails with InvalidFee and another origin is rejected, both
\* leaving the storage and the event log as they were; the rate is within
\* 0..100 in every reachable state.
C25_FeeAdministration ==
    /\ feePercentage \in 0..100
    /\ \A origin \in {Root, Seller}, fee \in FeeInputs \cup {0, 100} :
        \E r \in {SetFeePercentageCall(Store, origin, fee)} :
            /\ r.res = "Ok" <=> (origin = Root /\ fee <= 100)
            /\ origin # Root => r.res = "BadOrigin"
            /\ (origin = Root /\ fee > 100) => r.res = "InvalidFee"
            /\ r.res # "Ok" => r.st = Store
            /\ r.res = "Ok" =>
                /\ r.st = [Store EXCEPT !.feePercentage = fee,
                                        !.events = <<<<"FeePercentageSet", fee>>>>]
    /\ (last.op = "set_fee_percentage" /\ last.res = "Ok") =>
        /\ last.who = Root
        /\ last.amount <= 100
        /\ feePercentage = last.amount
        /\ Len(events) > 0
        /\ events[Len(events)] = <<"FeePercentageSet", last.amount>>

\* The root origin has just set the rate to 50.
C25_Witness ==
    /\ last.op = "set_fee_percentage"
    /\ last.res = "Ok"
    /\ last.who = Root
    /\ feePercentage = 50

\* C26: withdraw_fees called while accumulated_fees is zero fails, with
\* NoFeesAvailable when the origin is root, and accumulated_fees, every
\* balance and the rest of the storage are unchanged, and no event is emitted.
C26_EmptyWithdrawal ==
    /\ [](accumulatedFees = 0 =>
            \A origin \in {Root, Seller}, to \in Accounts :
                \E r \in {WithdrawFeesCall(Store, origin, to)} :
                    /\ r.res = (IF origin = Root THEN "NoFeesAvailable" ELSE "BadOrigin")
                    /\ r.st = Store)
    /\ [][(last'.op = "withdraw_fees" /\ accumulatedFees = 0) =>
            /\ last'.res \in {"NoFeesAvailable", "BadOrigin"}
            /\ storage' = storage
            /\ events' = <<>>]_vars

\* The root origin's withdrawal has just been refused for want of fees.
C26_Witness ==
    /\ last.op = "withdraw_fees"
    /\ last.res = "NoFeesAvailable"
    /\ accumulatedFees = 0

\* C27: a successful withdraw_fees(to), which only the root origin obtains and
\* only while accumulated_fees = F > 0, sets accumulated_fees to zero, takes
\* exactly F from the treasury account's free balance, adds exactly F to the
\* recipient's free balance, changes nothing else and emits
\* FeesWithdrawn(to, F); were the treasury account to hold less than F, the
\* transfer and the call fail and accumulated_fees keeps the value F.
C27_FeeWithdrawal ==
    /\ [](accumulatedFees > 0 =>
            \A to \in Accounts :
                /\ \E r \in {WithdrawFeesCall(Store, Root, to)} :
                    r.res = "Ok" =>
                        r.st = [Store EXCEPT
                                  !.accumulatedFees = 0,
                                  !.free = [[free EXCEPT ![PalletAccount] = @ - accumulatedFees]
                                                  EXCEPT ![to] = @ + accumulatedFees],
                                  !.events = <<<<"FeesWithdrawn", to, accumulatedFees>>>>]
                /\ \A held \in 0..(accumulatedFees - 1) :
                    \E short \in {[Store EXCEPT !.free[PalletAccount] = held]} :
                        \E r \in {WithdrawFeesCall(short, Root, to)} :
                            /\ r.res = "InsufficientBalance"
                            /\ r.st = short
                            /\ r.st.accumulatedFees = accumulatedFees)
    /\ [][(last'.op = "withdraw_fees" /\ last'.res = "Ok") =>
            /\ last'.who = Root
            /\ accumulatedFees > 0
            /\ accumulatedFees' = 0
            /\ free' = [[free EXCEPT ![PalletAccount] = @ - accumulatedFees]
                              EXCEPT ![last'.asset] = @ + accumulatedFees]
            /\ free[PalletAccount] >= accumulatedFees
            /\ events' = <<<<"FeesWithdrawn", last'.asset, accumulatedFees>>>>
            /\ <<now, reserved, nftOwner, itemFrozen, coll, auctions, bids, inAuction,
                 feePercentage>>' =
               <<now, reserved, nftOwner, itemFrozen, coll, auctions, bids, inAuction,
                 feePercentage>>]_vars

\* The root origin has just withdrawn a positive amount of fees to the seller.
C27_Witness ==
    /\ last.op = "withdraw_fees"
    /\ last.res = "Ok"
    /\ last.asset = Seller
    /\ accumulatedFees = 0
    /\ \E f \in 1..20 : events = <<<<"FeesWithdrawn", Seller, f>>>>

\* The fees of the settlements that succeeded during the operation recorded
\* in l, each computed from the bid and the rate in force when it ran.
SettledFees(l) ==
    SumOver([i \in DOMAIN l.atts |->
                IF l.atts[i].res = "Ok"
                THEN (l.atts[i].amount * l.atts[i].pre.feePercentage) \div 100
                ELSE 0],
            DOMAIN l.atts)

\* C28: accumulated_fees changes in two ways only: the settlements of a
\* resolve_auction or of an on_initialize that succeed add their fees to it,
\* and a successful withdraw_fees sets it to zero; every other operation and
\* every rejected call leaves it as it was, and it never decreases to a value
\* other than zero.
C28_FeeCounterChanges ==
    [][/\ (last'.op \in {"resolve_auction", "on_initialize"} /\ last'.res = "Ok") =>
            accumulatedFees' = accumulatedFees + SettledFees(last')
       /\ (last'.op = "withdraw_fees" /\ last'.res = "Ok") => accumulatedFees' = 0
       /\ ( \/ last'.res # "Ok"
            \/ last'.op \in {"list_nft_for_auction", "place_bid", "set_fee_percentage"} ) =>
            accumulatedFees' = accumulatedFees
       /\ accumulatedFees' < accumulatedFees => accumulatedFees' = 0]_vars

\* A settlement has just added its fee to a counter that already held the fee
\* of an earlier settlement.
C28_Witness ==
    /\ last.op \in {"resolve_auction", "on_initialize"}
    /\ last.res = "Ok"
    /\ SettledFees(last) > 0
    /\ accumulatedFees > SettledFees(last)

\* C29: the fee of a settlement is computed from the rate stored when the
\* settlement runs, which is the rate of the state the resolving operation
\* starts from, whatever the rate was when the auction was listed or the bid
\* placed; a call of set_fee_percentage changes no balance, no auction record,
\* no bid book and nothing else but the rate.
C29_RateReadAtSettlement ==
    [][/\ last'.op \in {"resolve_auction", "on_initialize"} =>
            /\ feePercentage' = feePercentage
            /\ \A i \in DOMAIN last'.atts :
                \E att \in {last'.atts[i]} :
                    /\ att.pre.feePercentage = feePercentage
                    /\ att.res = "Ok" =>
                        \E fee \in {(att.amount * feePercentage) \div 100} :
                            /\ att.post.accumulatedFees = att.pre.accumulatedFees + fee
                            /\ att.post.free[PalletAccount] = att.pre.free[PalletAccount] + fee
       /\ last'.op = "set_fee_percentage" =>
            /\ <<now, free, reserved, nftOwner, itemFrozen, coll, auctions, bids,
                 inAuction, accumulatedFees>>' =
               <<now, free, reserved, nftOwner, itemFrozen, coll, auctions, bids,
                 inAuction, accumulatedFees>>
            /\ last'.res # "Ok" => feePercentage' = feePercentage]_vars

\* An auction has just been settled at the rate of 50, set after genesis, and
\* half of the bid went to the treasury.
C29_Witness ==
    /\ last.op \in {"resolve_auction", "on_initialize"}
    /\ feePercentage = 50
    /\ \E i \in DOMAIN last.atts :
        /\ last.atts[i].res = "Ok"
        /\ last.atts[i].amount > 0
        /\ last.atts[i].pre.feePercentage = 50
        /\ 2 * (last.atts[i].post.accumulatedFees - last.atts[i].pre.accumulatedFees)
               = last.atts[i].amount

\* C30: resolve_auction called by the owner of an active auction that has a
\* bid, whose item the registry still records as the owner's and can thaw and
\* transfer, and whose highest bid is held in the bidder's reserved balance,
\* succeeds however small the bidder's free balance is; it does not fail with
\* NoValidBuyer.
C30_SettlementIgnoresFreeFunds ==
    \A x \in Minted :
        ( /\ Active(x)
          /\ HasLeader(x)
          /\ nftOwner[x] = auctions[x].owner
          /\ ~coll[CollectionOf(x)].is_frozen
          /\ coll[CollectionOf(x)].admin = auctions[x].owner
          /\ reserved[auctions[x].highest_bidder] >= auctions[x].highest_bid ) =>
            \E r \in {ResolveAuctionCall(Store, auctions[x].owner, x)} :
                /\ r.res # "NoValidBuyer"
                /\ r.res = "Ok"

\* C31: resolve_auction and on_initialize, whichever auctions they settle or
\* fail and by whichever bidder, leave in every account's reserved balance the
\* highest bids of the auctions that the account leads and that are still
\* active afterwards: where the reserved balance covered the account's highest
\* bids before the operation, it covers those of the remaining active auctions
\* after it.
C31_EscrowIsolation ==
    [][last'.op \in {"resolve_auction", "on_initialize"} =>
        \A b \in Accounts :
            reserved[b] = SumOfHighestBids(LedBy(b)) =>
                reserved'[b] >=
                    SumOfHighestBids({ y \in LedBy(b) : ~auctions'[y].ended })
      ]_vars

\* C32: an asset is frozen in the registry exactly while it has an active
\* auction, and once an auction has ended with the asset still its owner's,
\* which is how AuctionFailed leaves it, the owner's list_nft_for_auction
\* succeeds again.
C32_FailedAuctionFreesAsset ==
    \A x \in Minted :
        /\ itemFrozen[x] <=> Active(x)
        /\ (Ended(x) /\ nftOwner[x] = auctions[x].owner) =>
               ListNftForAuction(Store, auctions[x].owner, x).res = "Ok"

\* C33: after every successful settlement, by resolve_auction or by the sweep
\* with the highest bidder or with a lower one, the ended record's
\* highest_bidder and highest_bid are the buyer and the amount of the
\* AuctionResolved event, and that amount is what the buyer paid.
C33_RecordAgreesWithEvent ==
    \A i \in DOMAIN last.atts :
        \E att \in {last.atts[i]} :
            att.res = "Ok" =>
                /\ att.post.auctions[att.asset].ended
                /\ att.post.auctions[att.asset].highest_bidder = att.buyer
                /\ att.post.auctions[att.asset].highest_bid = att.amount
                /\ att.post.events[Len(att.post.events)]
                       = <<"AuctionResolved", att.asset, att.buyer, att.amount>>
                /\ Holdings(att.post, att.buyer) = Holdings(att.pre, att.buyer) - att.amount

\* C34: for every active auction the bid book is empty exactly when
\* highest_bidder is None, and otherwise its first entry is
\* (highest_bidder, highest_bid).
C34_BookHeadIsLeader ==
    \A x \in Assets :
        Active(x) =>
            /\ bids[x] = <<>> <=> auctions[x].highest_bidder = None
            /\ bids[x] # <<>> =>
                   bids[x][1] = [bidder |-> auctions[x].highest_bidder,
                                 amount |-> auctions[x].highest_bid]

\* An accepted bid has just gone to the head of a book that holds the entries
\* of two other bidders behind it.
C34_Witness ==
    /\ last.op = "place_bid"
    /\ last.res = "Ok"
    /\ Active(last.asset)
    /\ Len(bids[last.asset]) >= 3
    /\ bids[last.asset][1] = [bidder |-> last.who, amount |-> last.amount]
    /\ auctions[last.asset].highest_bidder = last.who

\* No bid has been accepted yet: every balance is as at genesis and every
\* book is empty, which is all a build with MaxBidsPerAuction = 0 can reach.
NoBidEverAccepted ==
    /\ free = GenesisFree
    /\ \A a \in Accounts : reserved[a] = 0
    /\ \A x \in Assets : bids[x] = <<>>

\* The bids that pass the checks before the reservation: the auction is
\* active, the bidder is not its owner and the amount is above highest_bid.
PassesAmountCheck(b, x, a) ==
    /\ Active(x)
    /\ b # auctions[x].owner
    /\ a > auctions[x].highest_bid

\* C35 as stated: every bid that passes the amount check is inserted at index
\* 0 of the book and place_bid returns neither BidTooLow nor TooManyBids for
\* it; with MaxBidsPerAuction = 0 every such bid is rejected with BidTooLow.
C35_AsStated ==
    \A b \in AllBidCallers, x \in Minted, a \in AllBidAmounts :
        PassesAmountCheck(b, x, a) =>
            /\ \E r \in {PlaceBidCall(Store, b, x, a)} :
                /\ r.res \notin {"BidTooLow", "TooManyBids"}
                /\ r.st.bids[x] # <<>>
                /\ r.st.bids[x][1] = [bidder |-> b, amount |-> a]
            /\ NoBidEverAccepted =>
                   PlaceBidCallOfCapacity(0, Store, b, x, a).res = "BidTooLow"

\* C35: a bid that passes the amount check and whose amount the bidder can
\* reserve is placed at index 0 of the book, the search answering position 0,
\* and place_bid returns Ok; one the bidder cannot reserve fails with
\* InsufficientBalance before the book is touched; so place_bid never returns
\* TooManyBids, and returns BidTooLow from the amount check only. With
\* MaxBidsPerAuction = 0 a bid that passes the amount check is rejected with
\* BidTooLow when the bidder can reserve it and with InsufficientBalance
\* otherwise, and nothing changes.
C35_InsertionNeverRejects ==
    /\ last.res # "TooManyBids"
    /\ \A b \in AllBidCallers, x \in Minted, a \in AllBidAmounts :
        PassesAmountCheck(b, x, a) =>
            /\ BinarySearchPos(Retain(bids[x], b), a) = 0
            /\ UpdateBook(bids[x], b, a).res = "Ok"
            /\ \E r \in {PlaceBidCall(Store, b, x, a)} :
                /\ r.res = (IF Reserve(Store, b, a).res = "Ok" THEN "Ok"
                            ELSE "InsufficientBalance")
                /\ r.res = "Ok" => r.st.bids[x][1] = [bidder |-> b, amount |-> a]
                /\ r.res # "Ok" => r.st = Store
            /\ NoBidEverAccepted =>
                \E r \in {PlaceBidCallOfCapacity(0, Store, b, x, a)} :
                    /\ r.res = (IF Reserve(Store, b, a).res = "Ok" THEN "BidTooLow"
                                ELSE "InsufficientBalance")
                    /\ r.st = Store
    /\ \A b \in AllBidCallers, x \in Minted, a \in AllBidAmounts :
        (Active(x) /\ b # auctions[x].owner /\ a <= auctions[x].highest_bid) =>
            PlaceBidCall(Store, b, x, a).res = "BidTooLow"

\* An accepted bid has just gone to the head of a book that was full, and a
\* higher bid that its bidder cannot reserve would pass the amount check.
C35_Witness ==
    /\ last.op = "place_bid"
    /\ last.res = "Ok"
    /\ Len(last.book) = MaxBidsPerAuction
    /\ bids[last.asset][1] = [bidder |-> last.who, amount |-> last.amount]
    /\ \E b \in AllBidCallers, a \in AllBidAmounts \cup {50} :
        /\ PassesAmountCheck(b, last.asset, a)
        /\ Reserve(Store, b, a).res # "Ok"

\* C36: the treasury account's free balance is at least accumulated_fees, so
\* a withdraw_fees by the root origin while accumulated_fees > 0 does not fail
\* for lack of funds, whatever the fees of the settlements were.
C36_TreasuryBacking ==
    /\ free[PalletAccount] >= accumulatedFees
    /\ accumulatedFees > 0 =>
           WithdrawFeesCall(Store, Root, Seller).res # "InsufficientBalance"

\* C37: a successful place_bid on an asset changes, of the storage, only that
\* asset's highest_bid and highest_bidder, that asset's bid book and the
\* balances of the bidder and of the asset's previous highest bidder; the
\* record's owner, start_block and ended flag, the in-auction flags, the
\* registry, the records and books of the other assets, the fee rate,
\* accumulated_fees and the block number stay as they were.
C37_FrameOfABid ==
    [][(last'.op = "place_bid" /\ last'.res = "Ok") =>
        \E x \in {last'.asset} :
            /\ auctions'[x] = [auctions[x] EXCEPT !.highest_bid = auctions'[x].highest_bid,
                                                  !.highest_bidder = auctions'[x].highest_bidder]
            /\ \A y \in Assets \ {x} : auctions'[y] = auctions[y] /\ bids'[y] = bids[y]
            /\ \A a \in Accounts \ {last'.who, auctions[x].highest_bidder} :
                   free'[a] = free[a] /\ reserved'[a] = reserved[a]
            /\ <<inAuction, nftOwner, itemFrozen, coll, feePercentage, accumulatedFees, now>>'
                   = <<inAuction, nftOwner, itemFrozen, coll, feePercentage, accumulatedFees, now>>
      ]_vars

\* A bid has just outbid another bidder on one asset, in a later block than
\* the listing, while the other asset has an active auction with a bid.
C37_Witness ==
    /\ last.op = "place_bid"
    /\ last.res = "Ok"
    /\ last.prior.highest_bidder \notin {None, last.who}
    /\ last.prior.start_block < now
    /\ \E y \in Assets \ {last.asset} : HasLeader(y)

\* The storage a sweep leaves, with its events as a set.
SweepOutcome(r) == [r.st EXCEPT !.events = { r.st.events[i] : i \in DOMAIN r.st.events }]

\* C38: in every state and for the next block number, on_initialize leaves
\* the same balances, ownership, records, books and set of events whichever
\* order it processes the overdue auctions in.
C38_SweepOrderIndependent ==
    \A o1, o2 \in IterationOrders :
        SweepOutcome(OnInitialize([Store EXCEPT !.now = now + 1], now + 1, o1))
            = SweepOutcome(OnInitialize([Store EXCEPT !.now = now + 1], now + 1, o2))

\* C39: for every bid amount of the balance type and every rate in 0..100 the
\* fee computation does not abort and gives floor(bid * rate / 100), which is
\* at most the bid and adds up to the bid with the payout; the royalty is
\* floor(bid * RoyaltyPercentage / 100).
C39_NoOverflowInSettlement ==
    last.op = "settlement_arithmetic" =>
        /\ ~last.aborted
        /\ last.fee = (last.bid * last.fee_percent) \div 100
        /\ last.fee <= last.bid
        /\ last.fee + last.payout = last.bid
        /\ last.royalty = (last.bid * RoyaltyPercentage) \div 100

\* C40: on_initialize settles or fails at most a fixed number of auctions in
\* one block and defers the other overdue auctions to later blocks: with a
\* maximum below the number of auctions that can be overdue together, a block
\* never processes all of them.
C40_BoundedSweepWork ==
    last.op = "on_initialize" => Len(last.sweep) < Cardinality(Minted)

====
